---- MODULE Spec2Model ----
(***************************************************************************)
(* Model of vmsim.py: a page table with a fixed number of frames replays a *)
(* trace of memory accesses under one of three replacement policies (OPT,  *)
(* LRU, second chance) and counts page faults and writes to disk.          *)
(*                                                                         *)
(* One behaviour fixes a trace file and a frame count and runs the         *)
(* simulator on that file once per policy, one run after the other, the    *)
(* statistics returned by each finished run being kept in `results`.       *)
(* A query is split at the calls it makes (evict, load, access) so that    *)
(* the table between an eviction and the following load is a state.        *)
(***************************************************************************)
EXTENDS Integers, Sequences, FiniteSets

\* ---------------------------------------------------------------- bounds
MaxLen == 4
MaxFrames == 2
NumPages == 3

\* ------------------------------------------------------------- constants
offset_bits == 12
NoPage == -1
NotFound == -1

PageSize == 2 ^ offset_bits

\* Addresses of the traces: the first byte of each of the pages 1..NumPages,
\* and the last byte of page 1.
Addresses == { p * PageSize : p \in 1..NumPages } \cup { 2 * PageSize - 1 }

\* Access kinds found in a trace file: load, store, and one that is neither.
Kinds == {"l", "s", "x"}

Records == [kind : Kinds, address : Addresses]

\* A trace file of n lines can be extended by record r.  A run stops at the
\* first record whose kind is neither "l" nor "s", so such a record is the
\* file's last; the policies compare page numbers for equality only, so
\* pages are numbered in the order of their first reference; at most one
\* record has an address that is not the first byte of its page.
CanExtend(t, r) ==
  /\ \A i \in 1..Len(t) : t[i].kind # "x"
  /\ r.address \div PageSize <=
       Cardinality({ t[i].address \div PageSize : i \in 1..Len(t) }) + 1
  /\ r.address % PageSize # 0 =>
       \A i \in 1..Len(t) : t[i].address % PageSize = 0

RECURSIVE TracesOfLen(_)
TracesOfLen(n) ==
  IF n = 0 THEN { << >> }
  ELSE UNION { { Append(t, r) : r \in { q \in Records : CanExtend(t, q) } } :
               t \in TracesOfLen(n - 1) }

\* Trace files of at most MaxLen lines.
Traces == UNION { TracesOfLen(n) : n \in 0..MaxLen }

Policies == {"opt", "lru", "second"}

\* The order in which the three runs over the same file are made.
NextPolicy(p) == IF p = "opt" THEN "lru" ELSE "second"

\* ------------------------------------------------------------------ Page
\* Page.__init__: page_number = address >> offset
PageNumber(address) == address \div (2 ^ offset_bits)

\* Faulty variant: the address is compared without being shifted.
contains_NoShift(page_number, address) == page_number = address

\* Page.contains
contains(page_number, address) == page_number = address \div (2 ^ offset_bits)

\* -------------------------------------------------------- PageTableEntry
NewEntry ==
  [page |-> NoPage, dirty |-> FALSE, most_recent_access |-> 0,
   num_accesses |-> 0, second_chance |-> FALSE]

setPage(e, address) ==
  [e EXCEPT !.page = PageNumber(address), !.second_chance = FALSE]

hasPage(e) == e.page # NoPage

isDirty(e) == e.dirty

\* Faulty variant: the flag is read inverted.
hasSecondChance_Negated(e) == ~e.second_chance

hasSecondChance(e) == e.second_chance

\* Faulty variant: the flag is left as it is.
losesChance_Keeps(e) == e

losesChance(e) == [e EXCEPT !.second_chance = FALSE]

Entry_load(e, access_index) ==
  [e EXCEPT !.most_recent_access = access_index,
            !.num_accesses = e.num_accesses + 1]

\* Faulty variant: a store counts as an access like a load does.
Entry_store_Counts(e, access_index) ==
  [e EXCEPT !.most_recent_access = access_index, !.dirty = TRUE,
            !.num_accesses = e.num_accesses + 1]

\* Faulty variant: a store does not record the index of the access.
Entry_store_NoStamp(e, access_index) == [e EXCEPT !.dirty = TRUE]

Entry_store(e, access_index) ==
  [e EXCEPT !.most_recent_access = access_index, !.dirty = TRUE]

\* Faulty variant: no access type is rejected.
accessRaises_Never(access_type) == FALSE

\* PageTableEntry.access raises ValueError for any other access type.
accessRaises(access_type) == access_type # "l" /\ access_type # "s"

access(e, access_type, access_index) ==
  IF access_type = "l" THEN Entry_load(e, access_index)
  ELSE IF access_type = "s" THEN Entry_store(e, access_index)
  ELSE e

\* Faulty variant: clear leaves the page in the entry.
clear_KeepsPage(e) ==
  [e EXCEPT !.dirty = FALSE, !.most_recent_access = 0, !.num_accesses = 0]

\* Faulty variant: clear leaves the dirty flag set.
clear_KeepsDirty(e) ==
  [e EXCEPT !.page = NoPage, !.most_recent_access = 0, !.num_accesses = 0]

clear(e) ==
  [e EXCEPT !.page = NoPage, !.dirty = FALSE,
            !.most_recent_access = 0, !.num_accesses = 0]

\* ------------------------------------------------------------- PageTable
NewTable(num_frames) == [i \in 1..num_frames |-> NewEntry]

\* Faulty variant: the loop returns None after looking at the first entry only.
getTableEntryByAddress_FirstOnly(tbl, address) ==
  IF hasPage(tbl[1]) /\ contains(tbl[1].page, address) THEN 1 ELSE 0

\* Frame (1-based) of the first entry whose page contains the address,
\* 0 for None.
getTableEntryByAddress(tbl, address) ==
  LET hits == { i \in 1..Len(tbl) :
                  hasPage(tbl[i]) /\ contains(tbl[i].page, address) }
  IN IF hits = {} THEN 0 ELSE CHOOSE i \in hits : \A j \in hits : i <= j

tableIsFull(tbl) == \A i \in 1..Len(tbl) : hasPage(tbl[i])

\* Faulty variant: the last entry without a page is taken.
FirstFree_Last(tbl) ==
  LET free == { i \in 1..Len(tbl) : ~hasPage(tbl[i]) }
  IN IF free = {} THEN 0 ELSE CHOOSE i \in free : \A j \in free : i >= j

\* PageTable.load: the first entry without a page, 0 when there is no room.
FirstFree(tbl) ==
  LET free == { i \in 1..Len(tbl) : ~hasPage(tbl[i]) }
  IN IF free = {} THEN 0 ELSE CHOOSE i \in free : \A j \in free : i <= j

\* ------------------------------------------- VirtualMemorySimulator.__init__
\* Faulty variant: the index of the last line is taken for the number of lines.
CountLines_LastIndex(file, n) ==
  IF Len(file) = 0 THEN 0 ELSE Len(file) - 1

\* mem_accesses: one per line of the file.
RECURSIVE CountLines(_, _)
CountLines(file, n) ==
  IF n = Len(file) THEN 0 ELSE 1 + CountLines(file, n + 1)

\* trace_indices[page_number]: the indices (0-based line numbers) at which
\* the page is referenced, appended in file order.  Built only for "opt".
RECURSIVE IndicesOf(_, _, _)
IndicesOf(file, page_number, n) ==
  IF n = 0 THEN << >>
  ELSE IF PageNumber(file[n].address) = page_number
       THEN Append(IndicesOf(file, page_number, n - 1), n - 1)
       ELSE IndicesOf(file, page_number, n - 1)

BuildTraceIndices(file, eviction_type) ==
  IF eviction_type = "opt"
  THEN [pn \in { PageNumber(file[n].address) : n \in 1..Len(file) } |->
          IndicesOf(file, pn, Len(file))]
  ELSE [pn \in {} |-> << >>]

\* ---------------------------------------------------- OPT lookahead helpers
\* Faulty variant: an element equal to index is taken for a greater one.
RECURSIVE BinarySearch_Lt(_, _, _, _, _)
BinarySearch_Lt(array, index, l, r, ans) ==
  IF l <= r
  THEN LET mid == l + ((r - l) \div 2)
       IN IF array[mid + 1] < index
          THEN BinarySearch_Lt(array, index, mid + 1, r, ans)
          ELSE BinarySearch_Lt(array, index, l, mid - 1, mid)
  ELSE ans

\* PageTable.findFirstElementGreaterThan: the loop, with 0-based l, r, ans.
RECURSIVE BinarySearch(_, _, _, _, _)
BinarySearch(array, index, l, r, ans) ==
  IF l <= r
  THEN LET mid == l + ((r - l) \div 2)
       IN IF array[mid + 1] <= index
          THEN BinarySearch(array, index, mid + 1, r, ans)
          ELSE BinarySearch(array, index, l, mid - 1, mid)
  ELSE ans

\* Faulty variant: the search stops one short of the end of the array.
findFirstElementGreaterThan_SkipLast(array, index) ==
  BinarySearch(array, index, 0, Len(array) - 2, NotFound)

findFirstElementGreaterThan(array, index) ==
  BinarySearch(array, index, 0, Len(array) - 1, NotFound)

\* PageTable.entryNextUsedAt raises ValueError when the search returns -1.
nextUsedRaises(ti, e, index) ==
  findFirstElementGreaterThan(ti[e.page], index) = NotFound

entryNextUsedAt(ti, e, index) ==
  ti[e.page][findFirstElementGreaterThan(ti[e.page], index) + 1]

\* Faulty variant: the comparison with the last recorded position is reversed.
entryIsNotUsedAgain_Reversed(ti, e, index) ==
  ti[e.page][Len(ti[e.page])] > index

entryIsNotUsedAgain(ti, e, index) ==
  ti[e.page][Len(ti[e.page])] < index

\* ------------------------------------------------------ victim selection
\* Faulty variant: the scan keeps the most recently used candidate.
RECURSIVE ScanLeastRecent_MostRecent(_, _, _, _)
ScanLeastRecent_MostRecent(tbl, cands, k, least) ==
  IF k > Len(cands) THEN least
  ELSE IF tbl[cands[k]].most_recent_access > tbl[least].most_recent_access
       THEN ScanLeastRecent_MostRecent(tbl, cands, k + 1, cands[k])
       ELSE ScanLeastRecent_MostRecent(tbl, cands, k + 1, least)

\* The scan shared by LRUTable.evict and the never-used-again branch of
\* OptimalTable.evict: cands is the list of frames scanned, least the
\* current choice, k the position of the next candidate.
RECURSIVE ScanLeastRecent(_, _, _, _)
ScanLeastRecent(tbl, cands, k, least) ==
  IF k > Len(cands) THEN least
  ELSE IF tbl[cands[k]].most_recent_access < tbl[least].most_recent_access
       THEN ScanLeastRecent(tbl, cands, k + 1, cands[k])
       ELSE ScanLeastRecent(tbl, cands, k + 1, least)

\* The frames of the table in table order.
RECURSIVE FramesFrom(_, _)
FramesFrom(i, n) == IF i > n THEN << >> ELSE << i >> \o FramesFrom(i + 1, n)

\* LRUTable.evict: the frame handed to clearEntry.
LRUVictim(tbl) == ScanLeastRecent(tbl, FramesFrom(1, Len(tbl)), 2, 1)

\* OptimalTable.evict: the list never_used_again, in table order.
NeverUsedAgain(tbl, ti, index) ==
  SelectSeq(FramesFrom(1, Len(tbl)),
            LAMBDA i : entryIsNotUsedAgain(ti, tbl[i], index))

\* OptimalTable.evict, else branch: next_used.index(max(next_used)).
UsedLatest(tbl, ti, index) ==
  LET next_used == [i \in 1..Len(tbl) |-> entryNextUsedAt(ti, tbl[i], index)]
      top == CHOOSE m \in { next_used[i] : i \in 1..Len(tbl) } :
               \A i \in 1..Len(tbl) : next_used[i] <= m
  IN CHOOSE i \in 1..Len(tbl) :
       /\ next_used[i] = top
       /\ \A j \in 1..Len(tbl) : next_used[j] = top => i <= j

\* OptimalTable.evict raises when entryNextUsedAt raises for some entry.
OptEvictRaises(tbl, ti, index) ==
  /\ Len(NeverUsedAgain(tbl, ti, index)) = 0
  /\ \E i \in 1..Len(tbl) : nextUsedRaises(ti, tbl[i], index)

\* OptimalTable.evict: the frame handed to clearEntry.
OptVictim(tbl, ti, index) ==
  LET never_used_again == NeverUsedAgain(tbl, ti, index)
  IN IF Len(never_used_again) > 0
     THEN ScanLeastRecent(tbl, never_used_again, 2, never_used_again[1])
     ELSE UsedLatest(tbl, ti, index)

\* Faulty variant: the write is counted whether or not the entry is dirty.
clearEntry_AlwaysWrites(tbl, writes, v) ==
  [table |-> [tbl EXCEPT ![v] = clear(tbl[v])],
   writes_to_disk |-> writes + 1]

\* PageTable.clearEntry on frame v: the table and the counter afterwards.
clearEntry(tbl, writes, v) ==
  [table |-> [tbl EXCEPT ![v] = clear(tbl[v])],
   writes_to_disk |-> IF isDirty(tbl[v]) THEN writes + 1 ELSE writes]

\* ------------------------------------------------------------------ state
VARIABLES
  trace,              \* the trace file: a sequence of records
  size,               \* num_frames
  policy,             \* eviction_type of the current run
  mem_accesses,       \* VirtualMemorySimulator.mem_accesses
  trace_indices,      \* PageTable.trace_indices
  table,              \* PageTable.table
  page_faults,        \* PageTable.page_faults
  writes_to_disk,     \* PageTable.writes_to_disk
  round_robin_index,  \* SecondChanceTable.round_robin_index
  index,              \* the index of run()'s loop: records replayed so far
  pc,                 \* where the run is: idle (between queries), scan,
                      \* evicted, loaded (inside a query), done, error
  pte,                \* the frame returned by load inside query, 0 if none
  victim,             \* the frame cleared by evict inside query, 0 if none
  err,                \* the exception that ended the run, "" if none
  results,            \* per policy, the statistics returned by run()
  hist,               \* history of the run: advances, the iterations made by
                      \* the loop of SecondChanceTable.evict in the current
                      \* query; evictions, the calls of clearEntry so far;
                      \* loaded_at, per frame the index at which its page
                      \* was loaded, -1 if it never held one
  search              \* a call of the lookahead search on its own: array,
                      \* index, the position and the value returned

vars ==
  << trace, size, policy, mem_accesses, trace_indices, table, page_faults,
     writes_to_disk, round_robin_index, index, pc, pte, victim, err, results,
     hist, search >>

NoResult == [returned |-> FALSE, memory_accesses |-> 0, page_faults |-> 0,
             writes_to_disk |-> 0]

NewHist(num_frames) ==
  [advances |-> 0, evictions |-> 0,
   loaded_at |-> [i \in 1..num_frames |-> -1]]

NoSearch ==
  [array |-> << >>, index |-> 0, pos |-> NotFound, next_used |-> NotFound,
   at |-> "none"]

\* The record run() is passing to query.
Rec == trace[index + 1]

\* The frame holding the page of the current record, 0 if none.
Lookup == getTableEntryByAddress(table, Rec.address)

Querying == pc = "idle" /\ index < Len(trace)

\* VirtualMemorySimulator.__init__ and createPageTable for one policy.
Construct(file, num_frames, eviction_type) ==
  /\ mem_accesses = CountLines(file, 0)
  /\ trace_indices = BuildTraceIndices(file, eviction_type)
  /\ table = NewTable(num_frames)
  /\ page_faults = 0
  /\ writes_to_disk = 0
  /\ round_robin_index = -1
  /\ index = 0
  /\ pc = "idle"
  /\ pte = 0
  /\ victim = 0
  /\ err = ""
  /\ hist = NewHist(num_frames)

Init ==
  /\ trace \in Traces
  /\ size \in 1..MaxFrames
  /\ policy = "opt"
  /\ results = [p \in Policies |-> NoResult]
  /\ search = NoSearch
  /\ Construct(trace, size, policy)

\* query, the page is in the table: access the entry, set its second chance.
Hit ==
  /\ Querying
  /\ Lookup # 0
  /\ IF accessRaises(Rec.kind)
     THEN /\ pc' = "error"
          /\ err' = "ValueError: Invalid access type"
          /\ UNCHANGED << table, index >>
     ELSE /\ table' = [table EXCEPT ![Lookup] =
                         [access(@, Rec.kind, index) EXCEPT
                            !.second_chance = TRUE]]
          /\ index' = index + 1
          /\ UNCHANGED << pc, err >>
  /\ UNCHANGED << trace, size, policy, mem_accesses, trace_indices,
                  page_faults, writes_to_disk, round_robin_index, pte,
                  victim, results, hist, search >>

\* PageTable.load: the address goes into the first entry without a page.
LoadInto(f) ==
  IF f = 0
  THEN /\ pc' = "error"
       /\ err' = "RuntimeError: no room"
       /\ UNCHANGED << table, pte, hist >>
  ELSE /\ table' = [table EXCEPT ![f] = setPage(@, Rec.address)]
       /\ pte' = f
       /\ pc' = "loaded"
       /\ hist' = [hist EXCEPT !.loaded_at[f] = index]
       /\ UNCHANGED err

\* query, the page is not in the table and the table is not full:
\* evictAndLoad calls load only.
MissLoad ==
  /\ Querying
  /\ Lookup = 0
  /\ ~tableIsFull(table)
  /\ LoadInto(FirstFree(table))
  /\ UNCHANGED << trace, size, policy, mem_accesses, trace_indices,
                  page_faults, writes_to_disk, round_robin_index, index,
                  victim, results, search >>

\* The table is full and misses: evictAndLoad calls evict.
MustEvict == Querying /\ Lookup = 0 /\ tableIsFull(table)

EvictLRU ==
  /\ MustEvict
  /\ policy = "lru"
  /\ LET v == LRUVictim(table)
         c == clearEntry(table, writes_to_disk, v)
     IN /\ table' = c.table
        /\ writes_to_disk' = c.writes_to_disk
        /\ victim' = v
  /\ pc' = "evicted"
  /\ hist' = [hist EXCEPT !.evictions = @ + 1]
  /\ UNCHANGED << trace, size, policy, mem_accesses, trace_indices,
                  page_faults, round_robin_index, index, pte, err, results,
                  search >>

EvictOPT ==
  /\ MustEvict
  /\ policy = "opt"
  /\ IF OptEvictRaises(table, trace_indices, index)
     THEN /\ pc' = "error"
          /\ err' = "ValueError: No element in array > index"
          /\ UNCHANGED << table, writes_to_disk, victim, hist >>
     ELSE LET v == OptVictim(table, trace_indices, index)
              c == clearEntry(table, writes_to_disk, v)
          IN /\ table' = c.table
             /\ writes_to_disk' = c.writes_to_disk
             /\ victim' = v
             /\ pc' = "evicted"
             /\ hist' = [hist EXCEPT !.evictions = @ + 1]
             /\ UNCHANGED err
  /\ UNCHANGED << trace, size, policy, mem_accesses, trace_indices,
                  page_faults, round_robin_index, index, pte, results,
                  search >>

\* Faulty variant: the cursor is wrapped but not advanced.
NextCursor_Stay(rr, n) == rr % n

\* SecondChanceTable.evict: the cursor after one advance, 0-based.
NextCursor(rr, n) == (rr + 1) % n

\* One iteration of the loop of SecondChanceTable.evict.
EvictSecond ==
  /\ MustEvict \/ pc = "scan"
  /\ policy = "second"
  /\ LET rr == NextCursor(round_robin_index, size)
     IN /\ round_robin_index' = rr
        /\ IF hasSecondChance(table[rr + 1])
           THEN /\ table' = [table EXCEPT ![rr + 1] = losesChance(@)]
                /\ pc' = "scan"
                /\ hist' = [hist EXCEPT !.advances = @ + 1]
                /\ UNCHANGED << writes_to_disk, victim >>
           ELSE LET c == clearEntry(table, writes_to_disk, rr + 1)
                IN /\ table' = c.table
                   /\ writes_to_disk' = c.writes_to_disk
                   /\ victim' = rr + 1
                   /\ pc' = "evicted"
                   /\ hist' = [hist EXCEPT !.advances = @ + 1,
                                           !.evictions = @ + 1]
  /\ UNCHANGED << trace, size, policy, mem_accesses, trace_indices,
                  page_faults, index, pte, err, results, search >>

\* evictAndLoad after evict has returned: load.
Load ==
  /\ pc = "evicted"
  /\ LoadInto(FirstFree(table))
  /\ UNCHANGED << trace, size, policy, mem_accesses, trace_indices,
                  page_faults, writes_to_disk, round_robin_index, index,
                  victim, results, search >>

\* query after evictAndLoad has returned: access the entry, count the fault.
Access ==
  /\ pc = "loaded"
  /\ IF accessRaises(Rec.kind)
     THEN /\ pc' = "error"
          /\ err' = "ValueError: Invalid access type"
          /\ UNCHANGED << table, page_faults, index, pte, victim, hist >>
     ELSE /\ table' = [table EXCEPT ![pte] = access(@, Rec.kind, index)]
          /\ page_faults' = page_faults + 1
          /\ index' = index + 1
          /\ pc' = "idle"
          /\ pte' = 0
          /\ victim' = 0
          /\ hist' = [hist EXCEPT !.advances = 0]
          /\ UNCHANGED err
  /\ UNCHANGED << trace, size, policy, mem_accesses, trace_indices,
                  writes_to_disk, round_robin_index, results, search >>

\* run() has passed every record to query and returns the statistics.
Finish ==
  /\ pc = "idle"
  /\ index = Len(trace)
  /\ results' = [results EXCEPT ![policy] =
                   [returned |-> TRUE, memory_accesses |-> mem_accesses,
                    page_faults |-> page_faults,
                    writes_to_disk |-> writes_to_disk]]
  /\ pc' = "done"
  /\ UNCHANGED << trace, size, policy, mem_accesses, trace_indices, table,
                  page_faults, writes_to_disk, round_robin_index, index,
                  pte, victim, err, hist, search >>

\* The run has ended (returned or raised): the simulator is started on the
\* same file and frame count with the next policy.
NextRun ==
  /\ pc \in {"done", "error"}
  /\ policy # "second"
  /\ policy' = NextPolicy(policy)
  /\ mem_accesses' = CountLines(trace, 0)
  /\ trace_indices' = BuildTraceIndices(trace, NextPolicy(policy))
  /\ table' = NewTable(size)
  /\ page_faults' = 0
  /\ writes_to_disk' = 0
  /\ round_robin_index' = -1
  /\ index' = 0
  /\ pc' = "idle"
  /\ pte' = 0
  /\ victim' = 0
  /\ err' = ""
  /\ hist' = NewHist(size)
  /\ UNCHANGED << trace, size, results, search >>

Next ==
  \/ Hit
  \/ MissLoad
  \/ EvictLRU
  \/ EvictOPT
  \/ EvictSecond
  \/ Load
  \/ Access
  \/ Finish
  \/ NextRun

Spec == Init /\ [][Next]_vars

TypeOK ==
  /\ trace \in Traces
  /\ size \in 1..MaxFrames
  /\ policy \in Policies
  /\ pc \in {"idle", "scan", "evicted", "loaded", "done", "error"}
  /\ index \in 0..Len(trace)
  /\ pte \in 0..size
  /\ victim \in 0..size
  /\ page_faults \in Nat
  /\ writes_to_disk \in Nat

\* ------------------------------------------- the lookahead search alone
\* The strictly ascending arrays of trace positions, the empty one included.
RECURSIVE SortedSeq(_)
SortedSeq(S) ==
  IF S = {} THEN << >>
  ELSE LET m == CHOOSE x \in S : \A y \in S : x <= y
       IN << m >> \o SortedSeq(S \ {m})

AscendingArrays == { SortedSeq(S) : S \in SUBSET (0..(MaxLen - 1)) }

\* A page table of one frame over an empty trace, and a call of the search
\* with any ascending array and any index.
SearchInit ==
  /\ trace = << >>
  /\ size = 1
  /\ policy = "opt"
  /\ results = [p \in Policies |-> NoResult]
  /\ Construct(trace, size, policy)
  /\ search \in [array : AscendingArrays, index : 0..MaxLen,
                  pos : {NotFound}, next_used : {NotFound}, at : {"called"}]

\* PageTable.findFirstElementGreaterThan(array, index).
FindFirst ==
  /\ search.at = "called"
  /\ search' = [search EXCEPT
                  !.pos = findFirstElementGreaterThan(search.array,
                                                      search.index),
                  !.at = "searched"]
  /\ UNCHANGED << trace, size, policy, mem_accesses, trace_indices, table,
                  page_faults, writes_to_disk, round_robin_index, index, pc,
                  pte, victim, err, results, hist >>

\* PageTable.entryNextUsedAt for an entry whose page is recorded at the
\* positions of the array.
NextUsed ==
  /\ search.at = "searched"
  /\ LET e == setPage(NewEntry, PageSize)
         ti == [pn \in {e.page} |-> search.array]
     IN IF nextUsedRaises(ti, e, search.index)
        THEN search' = [search EXCEPT !.at = "raised"]
        ELSE search' = [search EXCEPT
                          !.next_used = entryNextUsedAt(ti, e, search.index),
                          !.at = "returned"]
  /\ UNCHANGED << trace, size, policy, mem_accesses, trace_indices, table,
                  page_faults, writes_to_disk, round_robin_index, index, pc,
                  pte, victim, err, results, hist >>

SearchNext ==
  \/ FindFirst
  \/ NextUsed

SearchSpec == SearchInit /\ [][SearchNext]_vars

\* ----------------------------------------------------- claim vocabulary
Frames == 1..size

Occupied == { i \in Frames : table[i].page # NoPage }

ResidentPages == { table[i].page : i \in Occupied }

\* The page number of the record at 0-based position k of the trace.
PageAt(k) == trace[k + 1].address \div PageSize

InQuery == pc \in {"scan", "evicted", "loaded"}

\* The number of records passed to query so far, the current one included.
Started == IF pc \in {"idle", "done"} THEN index ELSE index + 1

AllReturned == \A p \in Policies : results[p].returned

\* C1: in every state of a run 0 <= page_faults <= records replayed so far
\* and writes_to_disk <= page_faults; within a run neither counter ever
\* decreases; mem_accesses, and the memory_accesses a run returns, equal the
\* number of records of the trace.
C1_Counters ==
  /\ [](/\ 0 <= page_faults
        /\ page_faults <= index
        /\ 0 <= writes_to_disk
        /\ writes_to_disk <= page_faults
        /\ mem_accesses = Len(trace)
        /\ \A p \in Policies :
             results[p].returned =>
               /\ results[p].memory_accesses = Len(trace)
               /\ results[p].page_faults <= results[p].memory_accesses
               /\ results[p].writes_to_disk <= results[p].page_faults)
  /\ [][policy' = policy =>
          /\ page_faults' >= page_faults
          /\ writes_to_disk' >= writes_to_disk]_vars

C1_Witness ==
  /\ pc = "done"
  /\ Len(trace) = MaxLen
  /\ writes_to_disk >= 1
  /\ page_faults < index
  /\ results[policy].memory_accesses = MaxLen

\* C2: a query with kind l or s whose page is in some frame completes with
\* page_faults unchanged; one whose page is in no frame completes with
\* page_faults increased by exactly 1, and page_faults changes in no other
\* way; after the query its page is resident, and with one frame it is the
\* only resident page.
C2_FaultIffNotResident ==
  [][policy' = policy =>
       /\ (Querying /\ ~accessRaises(Rec.kind)
             /\ PageAt(index) \in ResidentPages) =>
            /\ page_faults' = page_faults
            /\ index' = index + 1
            /\ pc' = "idle"
       /\ (Querying /\ PageAt(index) \notin ResidentPages) =>
            /\ page_faults' = page_faults
            /\ index' = index
            /\ pc' \in {"scan", "evicted", "loaded"}
       /\ InQuery =>
            \/ /\ index' = index
               /\ page_faults' = page_faults
               /\ pc' \in {"scan", "evicted", "loaded"}
            \/ /\ index' = index
               /\ page_faults' = page_faults
               /\ pc' = "error"
               /\ accessRaises(Rec.kind)
            \/ /\ index' = index + 1
               /\ page_faults' = page_faults + 1
               /\ pc' = "idle"
       /\ page_faults' # page_faults => InQuery /\ index' = index + 1
       /\ index' = index + 1 =>
            /\ PageAt(index) \in { table'[i].page : i \in Frames }
            /\ size = 1 => table'[1].page = PageAt(index)]_vars

C2_Witness ==
  /\ size = 1
  /\ pc = "idle"
  /\ page_faults >= 2
  /\ page_faults < index
  /\ index = MaxLen

\* C3: no two frames hold the same page number.
C3_NoSharedPage ==
  \A i, j \in Occupied : table[i].page = table[j].page => i = j

C3_Witness ==
  /\ size >= 2
  /\ Occupied = Frames
  /\ page_faults > size
  /\ index > page_faults

\* C4: the number of occupied frames is at most the frame count and at most
\* the number of distinct pages among the records passed to query so far.
C4_OccupiedBound ==
  /\ Cardinality(Occupied) <= size
  /\ Cardinality(Occupied) <= Cardinality({ PageAt(k) : k \in 0..(Started - 1) })

C4_Witness ==
  /\ size >= 2
  /\ pc = "idle"
  /\ index >= 3
  /\ Cardinality(Occupied) = 1

\* C5: when the last of the three runs over the same trace and frame count
\* has returned, the other two have returned as well, and OPT's page_faults
\* is at most LRU's and at most second chance's.
C5_Belady ==
  (policy = "second" /\ pc = "done") =>
    /\ AllReturned
    /\ results["opt"].page_faults <= results["lru"].page_faults
    /\ results["opt"].page_faults <= results["second"].page_faults

C5_Witness ==
  /\ AllReturned
  /\ size >= 2
  /\ results["opt"].page_faults > size
  /\ results["opt"].page_faults < results["lru"].page_faults
  /\ results["opt"].page_faults < results["second"].page_faults

\* C6: writes_to_disk changes only in the step that clears a victim, which
\* happens only on a miss with the table full: by exactly 1 when the victim
\* is dirty, by 0 when it is clean; no other step (hit, load, access, scan,
\* the return of run) changes it, and the count a run returns is the count
\* of victims written, whatever dirty pages are still resident.
C6_WritebackOnlyOnDirtyEviction ==
  /\ [](pc \in {"scan", "evicted"} =>
          /\ PageAt(index) \notin ResidentPages
          /\ Cardinality(Occupied) >= size - 1)
  /\ [][policy' = policy =>
          /\ writes_to_disk' # writes_to_disk =>
               /\ writes_to_disk' = writes_to_disk + 1
               /\ MustEvict \/ pc = "scan"
               /\ Occupied = Frames
               /\ pc' = "evicted"
               /\ table[victim'].dirty
          /\ (pc' = "evicted" /\ pc # "evicted") =>
               /\ Occupied = Frames
               /\ table'[victim'].page = NoPage
               /\ writes_to_disk' =
                    writes_to_disk + (IF table[victim'].dirty THEN 1 ELSE 0)
          /\ pc' = "done" =>
               /\ writes_to_disk' = writes_to_disk
               /\ results'[policy].writes_to_disk = writes_to_disk]_vars

C6_Witness ==
  /\ pc = "done"
  /\ results[policy].writes_to_disk = 1
  /\ page_faults > size + 1
  /\ \E i \in Occupied : table[i].dirty

\* C7: offset width 12, two frames, trace l 0x1000, l 0x2000, l 0x3000,
\* l 0x1000.  LRU misses on all four records and returns 4 page faults and
\* 0 writes; OPT clears the frame of page 2 at index 2, keeps page 1, hits
\* on the last record and returns 3 page faults and 0 writes.
Trace7 ==
  << [kind |-> "l", address |-> 4096], [kind |-> "l", address |-> 8192],
     [kind |-> "l", address |-> 12288], [kind |-> "l", address |-> 4096] >>

C7_Scenario ==
  (offset_bits = 12 /\ trace = Trace7 /\ size = 2) =>
    /\ results["lru"].returned =>
         /\ results["lru"].page_faults = 4
         /\ results["lru"].writes_to_disk = 0
    /\ results["opt"].returned =>
         /\ results["opt"].page_faults = 3
         /\ results["opt"].writes_to_disk = 0
    /\ (policy = "lru" /\ pc = "idle") => page_faults = index
    /\ (policy = "opt" /\ index = 2 /\ pc = "evicted") =>
         /\ victim = 2
         /\ table[1].page = 1
         /\ table[2].page = NoPage
    /\ (policy = "opt" /\ index = 3) =>
         /\ pc = "idle"
         /\ page_faults = 3
         /\ 1 \in ResidentPages
    /\ (policy = "opt" /\ index = 4) => page_faults = 3

C7_Witness ==
  /\ trace = Trace7
  /\ size = 2
  /\ results["opt"].returned
  /\ results["lru"].returned
  /\ results["opt"].page_faults = 3
  /\ results["lru"].page_faults = 4

C9_LoadFindsRoom ==
  /\ [](/\ err # "RuntimeError: no room"
        /\ pc = "evicted" =>
             /\ victim \in Frames
             /\ Frames \ Occupied = {victim}
        /\ (pc = "loaded" /\ victim # 0) =>
             /\ pte = victim
             /\ Occupied = Frames
             /\ table[pte].page = PageAt(index))
  /\ [][policy' = policy =>
          /\ (Querying /\ PageAt(index) \notin ResidentPages
                /\ Occupied # Frames) =>
               /\ pc' = "loaded"
               /\ victim' = 0
               /\ pte' \in Frames \ Occupied
               /\ \A j \in Frames \ Occupied : pte' <= j
               /\ table'[pte'].page = PageAt(index)
               /\ \A j \in Frames \ {pte'} : table'[j] = table[j]
               /\ writes_to_disk' = writes_to_disk
          /\ pc = "evicted" =>
               /\ pc' = "loaded"
               /\ pte' = victim
               /\ \A j \in Frames \ {victim} : table'[j] = table[j]]_vars

C9_Witness ==
  /\ pc = "loaded"
  /\ size >= 2
  /\ victim = 2
  /\ pte = 2
  /\ page_faults >= size + 1

\* C10 as stated: a frame without a page has every other field at its
\* default, second_chance included, in every state.
C10_FreeFrameAllDefaults ==
  \A i \in Frames :
    table[i].page = NoPage =>
      /\ table[i].dirty = FALSE
      /\ table[i].most_recent_access = 0
      /\ table[i].num_accesses = 0
      /\ table[i].second_chance = FALSE

\* C10 amended: a frame without a page has dirty = FALSE, most recent access
\* 0 and number of accesses 0 in every state; its second_chance is FALSE
\* except in the state between clearEntry and the following load under LRU
\* and OPT, where the cleared victim keeps the second_chance it had.
C10_FreeFrameDefaults ==
  \A i \in Frames :
    table[i].page = NoPage =>
      /\ table[i].dirty = FALSE
      /\ table[i].most_recent_access = 0
      /\ table[i].num_accesses = 0
      /\ table[i].second_chance =>
           /\ pc = "evicted"
           /\ i = victim
           /\ policy \in {"lru", "opt"}

C10_Witness ==
  /\ pc = "evicted"
  /\ size >= 2
  /\ table[victim].page = NoPage
  /\ table[victim].second_chance
  /\ writes_to_disk >= 1

\* ------------------------------------------- claim vocabulary, continued
\* The position of the most recent record before position i that refers to
\* page p (p has been referred to before i).
LastRef(p, i) ==
  CHOOSE k \in 0..(i - 1) :
    /\ PageAt(k) = p
    /\ \A m \in (k + 1)..(i - 1) : PageAt(m) # p

\* Page p is referred to by some record after position i.
UsedAfter(p, i) == \E k \in (i + 1)..(Len(trace) - 1) : PageAt(k) = p

\* The position of the first record after position i that refers to page p.
NextRef(p, i) ==
  CHOOSE k \in (i + 1)..(Len(trace) - 1) :
    /\ PageAt(k) = p
    /\ \A m \in (i + 1)..(k - 1) : PageAt(m) # p

\* C11: under LRU every eviction clears the frame whose most_recent_access
\* is the smallest of all frames, the first such frame in table order, and
\* no other frame; the page of that frame is the resident page whose most
\* recent reference in the trace is the oldest.
C11_LRUVictim ==
  [][(policy = "lru" /\ MustEvict) =>
       /\ pc' = "evicted"
       /\ victim' \in Frames
       /\ \A j \in Frames :
            /\ table[victim'].most_recent_access <= table[j].most_recent_access
            /\ j < victim' =>
                 table[j].most_recent_access > table[victim'].most_recent_access
            /\ LastRef(table[victim'].page, index) <=
                 LastRef(table[j].page, index)
            /\ j # victim' => table'[j] = table[j]
       /\ table'[victim'].page = NoPage]_vars

C11_Witness ==
  /\ policy = "lru"
  /\ pc = "evicted"
  /\ size = 2
  /\ victim = 2
  /\ table[1].most_recent_access > 1

Examined == ((round_robin_index + 1) % size) + 1

Scanning == MustEvict \/ pc = "scan"

\* C13: under second chance the cursor is -1 until the first eviction, so
\* the first eviction examines frame 0 first; every iteration of an eviction
\* examines the frame one past the cursor in cyclic order and moves the
\* cursor onto it; an examined frame with second_chance set has it cleared
\* and the scan goes on, the first examined frame with second_chance clear
\* is the victim; the cursor stays on the victim until the next eviction;
\* no frame other than the examined one is changed.
C13_ClockScan ==
  /\ [](policy = "second" =>
          /\ round_robin_index \in -1..(size - 1)
          /\ (hist.evictions = 0 /\ hist.advances = 0) =>
               round_robin_index = -1
          /\ pc = "evicted" => round_robin_index + 1 = victim)
  /\ [][(policy = "second" /\ policy' = policy) =>
          IF Scanning
          THEN /\ round_robin_index' = Examined - 1
               /\ round_robin_index = -1 => Examined = 1
               /\ \A j \in Frames \ {Examined} : table'[j] = table[j]
               /\ IF table[Examined].second_chance
                  THEN /\ table'[Examined] =
                            [table[Examined] EXCEPT !.second_chance = FALSE]
                       /\ pc' = "scan"
                       /\ victim' = victim
                  ELSE /\ table'[Examined].page = NoPage
                       /\ pc' = "evicted"
                       /\ victim' = Examined
          ELSE round_robin_index' = round_robin_index]_vars

C13_Witness ==
  /\ policy = "second"
  /\ pc = "evicted"
  /\ size = 2
  /\ hist.advances = 2
  /\ victim = 2
  /\ table[1].page # NoPage
  /\ ~table[1].second_chance

\* C14: under second chance a frame's second_chance is set by a hit on its
\* page, cleared when the scan examines the frame and when a page is loaded
\* into it, and changed by nothing else, so between queries it is TRUE
\* exactly when the page was hit since the later of its load and the frame's
\* last examination; a loaded page has second_chance FALSE, and a victim
\* has second_chance FALSE when it is cleared.
C14_SecondChanceBit ==
  /\ [](policy = "second" =>
          /\ \A f \in Frames \ Occupied : ~table[f].second_chance
          /\ pc = "loaded" => ~table[pte].second_chance
          /\ \A f \in Frames :
               (pc = "idle" /\ hist.loaded_at[f] = index - 1) =>
                 ~table[f].second_chance)
  /\ [][(policy = "second" /\ policy' = policy) =>
          \A f \in Frames :
            LET hit == /\ Querying
                       /\ ~accessRaises(Rec.kind)
                       /\ table[f].page = PageAt(index)
                examined == Scanning /\ f = Examined
                loaded == pc' = "loaded" /\ pte' = f
            IN /\ hit => table'[f].second_chance
               /\ examined =>
                    /\ ~table'[f].second_chance
                    /\ pc' = "evicted" => ~table[f].second_chance
               /\ loaded => ~table'[f].second_chance
               /\ ~(hit \/ examined \/ loaded) =>
                    table'[f].second_chance = table[f].second_chance]_vars

C14_Witness ==
  /\ policy = "second"
  /\ pc = "idle"
  /\ size = 2
  /\ hist.evictions >= 1
  /\ table[2].second_chance
  /\ ~table[1].second_chance
  /\ hist.loaded_at[1] > hist.loaded_at[2]

\* C18: an eviction under second chance with n frames ends after at most
\* n + 1 iterations of its loop: while the loop is running it has made at
\* most n iterations, and when it has cleared its victim at most n + 1.
C18_ScanTerminates ==
  policy = "second" =>
    /\ hist.advances <= size + 1
    /\ pc = "scan" =>
         /\ hist.advances \in 1..size
         /\ Cardinality({ f \in Frames : table[f].second_chance }) <=
              size - hist.advances
    /\ pc = "evicted" => hist.advances \in 1..(size + 1)

C18_Witness ==
  /\ policy = "second"
  /\ pc = "evicted"
  /\ hist.advances = size + 1
  /\ hist.evictions = 1

Boundary == pc \in {"idle", "done"}

\* The positions from t to the last replayed record that refer to page p.
RefsSince(p, t) == { k \in t..(index - 1) : PageAt(k) = p }

\* C15: between queries, for every occupied frame: it is dirty exactly when
\* a store has referred to its page since the index at which the page was
\* loaded (that access included); its most_recent_access is the index of
\* the most recent record referring to the page; its num_accesses is the
\* number of loads, stores not counted, that referred to the page since it
\* was loaded.
C15_EntryFields ==
  Boundary =>
    \A f \in Occupied :
      LET p == table[f].page
          t == hist.loaded_at[f]
      IN /\ t \in 0..(index - 1)
         /\ PageAt(t) = p
         /\ table[f].dirty <=>
              \E k \in RefsSince(p, t) : trace[k + 1].kind = "s"
         /\ table[f].most_recent_access = LastRef(p, index)
         /\ table[f].num_accesses =
              Cardinality({ k \in RefsSince(p, t) : trace[k + 1].kind = "l" })

C15_Witness ==
  /\ pc = "idle"
  /\ hist.evictions >= 1
  /\ \E f \in Occupied :
       /\ table[f].dirty
       /\ table[f].num_accesses >= 1
       /\ hist.loaded_at[f] >= 1
       /\ table[f].most_recent_access > hist.loaded_at[f]

InvalidNow == index < Len(trace) /\ Rec.kind \notin {"l", "s"}

InvalidRaised ==
  (InvalidNow /\ ~InQuery /\ pc # "idle") =>
    (pc = "error" /\ err = "ValueError: Invalid access type")

\* C17 as stated: a query whose kind is neither l nor s raises the error
\* and no step of it changes the table or either counter, whether the page
\* is resident or not.
C17_InvalidKindUnchanged ==
  /\ []InvalidRaised
  /\ [][(policy' = policy /\ InvalidNow) =>
          /\ table' = table
          /\ page_faults' = page_faults
          /\ writes_to_disk' = writes_to_disk]_vars

\* C17 amended: such a query raises the error and never changes page_faults
\* or the index; when the page is resident it changes neither the table nor
\* writes_to_disk; when the page is not resident the error is raised by the
\* access that follows evictAndLoad, so the table has changed by then: with
\* the table full a victim has been cleared (writes_to_disk counted if it
\* was dirty), and the page is in the frame load returned, with dirty
\* FALSE, most_recent_access 0 and num_accesses 0.
C17_InvalidKind ==
  /\ []InvalidRaised
  /\ [](InvalidNow /\ pc = "error" =>
          IF pte = 0
          THEN /\ PageAt(index) \in ResidentPages
               /\ hist.evictions = page_faults - Cardinality(Occupied)
          ELSE /\ table[pte] = setPage(NewEntry, Rec.address)
               /\ victim \in {0, pte}
               /\ hist.evictions =
                    page_faults + 1 - Cardinality(Occupied))
  /\ [][(policy' = policy /\ InvalidNow) =>
          /\ page_faults' = page_faults
          /\ index' = index
          /\ (pc = "idle" /\ PageAt(index) \in ResidentPages) =>
               /\ pc' = "error"
               /\ pte' = 0
               /\ table' = table
               /\ writes_to_disk' = writes_to_disk
          /\ (pc = "idle" /\ PageAt(index) \notin ResidentPages) =>
               /\ pc' \in {"scan", "evicted", "loaded"}
               /\ table' # table
          /\ pc = "loaded" =>
               /\ pc' = "error"
               /\ table' = table
               /\ writes_to_disk' = writes_to_disk
          /\ writes_to_disk' # writes_to_disk =>
               /\ writes_to_disk' = writes_to_disk + 1
               /\ table[victim'].dirty]_vars

C17_Witness ==
  /\ InvalidNow
  /\ pc = "error"
  /\ size = 2
  /\ pte = 2
  /\ victim = 2
  /\ writes_to_disk = 1
  /\ page_faults = 2

\* C19: between queries the most_recent_access values of the occupied
\* frames are pairwise distinct and none exceeds the index of the last
\* replayed record; so when LRU evicts, exactly one frame has the smallest
\* value, and when OPT evicts among pages not referred to again, exactly
\* one of them has the smallest value.
C19_DistinctStamps ==
  Boundary =>
    /\ \A i, j \in Occupied :
         table[i].most_recent_access = table[j].most_recent_access => i = j
    /\ \A i \in Occupied : table[i].most_recent_access <= index - 1
    /\ (MustEvict /\ policy = "lru") =>
         Cardinality({ i \in Frames : \A j \in Frames :
           table[i].most_recent_access <= table[j].most_recent_access }) = 1
    /\ (MustEvict /\ policy = "opt") =>
         LET never == { j \in Frames : ~UsedAfter(table[j].page, index) }
         IN Cardinality({ i \in never : \A j \in never :
              table[i].most_recent_access <= table[j].most_recent_access })
              <= 1

C19_Witness ==
  /\ MustEvict
  /\ policy = "opt"
  /\ size = 2
  /\ index = 3
  /\ table[2].most_recent_access < table[1].most_recent_access
  /\ \A j \in Frames : ~UsedAfter(table[j].page, index)
  /\ \E j \in Frames : table[j].dirty

\* C20: between queries the number of occupied frames is the smaller of
\* page_faults and the frame count, the occupied frames are the first ones
\* of the table, a frame that has held a page holds one, and the number of
\* evictions made is page_faults minus the number of occupied frames.
C20_FillOrder ==
  Boundary =>
    LET k == Cardinality(Occupied)
    IN /\ k = IF page_faults < size THEN page_faults ELSE size
       /\ Occupied = 1..k
       /\ \A f \in Frames : hist.loaded_at[f] # -1 <=> f \in Occupied
       /\ hist.evictions = page_faults - k

C20_Witness ==
  /\ pc = "idle"
  /\ size = 2
  /\ page_faults = 3
  /\ hist.evictions = 1
  /\ index = 4
  /\ Occupied = Frames

====
